---- MODULE Spec2Model ----
(***************************************************************************)
(* Reconciliation layer of the collaborative blocks editor.                *)
(*                                                                         *)
(* Two browser sessions ("A" and "B") share one Yjs document through a     *)
(* relay.  Each session is the room page (connection status, the           *)
(* block-content map, the mouse-positions map) together with its Editor    *)
(* component (iframe bridge, debounce timer, lastRoomState).                *)
(*                                                                         *)
(* Every Y.Map.set is a transaction of its own, so it is replicated as a   *)
(* message of its own.  A write names the write it replaced; of two writes *)
(* neither of which replaced the other, the one by the document with the   *)
(* larger clientID stands.  A replica calls its observer for every write   *)
(* it integrates.  Svelte runs the Editor's $effect once after the handler *)
(* that assigned editorContent has returned, so an action below is the     *)
(* handler followed by that effect run; the effect is taken to run when    *)
(* initCode has been assigned.                                             *)
(***************************************************************************)
EXTENDS Integers, Sequences, FiniteSets, TLC

\* ---------------------------------------------------------------- bounds
MaxPub == 2        \* publishes in a run of one session and its peers
MaxSyncPub == 3    \* publishes in a run of two sessions
MaxMoves == 2      \* mouse-positions writes in flight to a session

\* ------------------------------------------------------------ participants
Clients == {"A", "B"}

Other(c) == IF c = "A" THEN "B" ELSE "A"

\* Editor.svelte's localUserId: the origin tag of a session's publishes
localUserId(c) == c

\* the room page's userId: the session's key in the mouse-positions map
userId(c) == IF c = "A" THEN "1" ELSE "2"

userColor(c) == IF c = "A" THEN "#a" ELSE "#b"

UserIds == {userId(c) : c \in Clients}

\* -------------------------------------------------------------- JSON values
\* null
NullV == [t |-> "null"]

\* undefined (the default of the Editor's initCode prop)
UndefinedV == [t |-> "undefined"]

\* a project document, named by its canonical JSON text
Json(x) == [t |-> "json", v |-> x]

\* the wrapper object { data, timestamp, origin } the room page hands down
ContentRecord(d, ts, o) ==
    [t |-> "rec", data |-> d, timestamp |-> ts, origin |-> o]

\* The strings an iframe may put in data.data of a blocks.updateProject
\* message: nothing, text that is no JSON, the JSON text null, and project
\* documents (the same document with and without insignificant whitespace).
\*   "", "{", "null", "x", " x", "y"

\* JavaScript truthiness of a string
TruthyString(s) == s # ""

\* whether JSON.parse(raw) returns (it throws a SyntaxError otherwise)
Parses(raw) == raw \in {"null", "x", " x", "y"}

\* JSON.parse on the raw strings above
JSONparse(raw) ==
    CASE raw = "null" -> NullV
      [] raw \in {"x", " x"} -> Json("x")
      [] raw = "y" -> Json("y")

\* JSON.stringify: the canonical text of a value
RECURSIVE JSONstringify(_)
JSONstringify(v) ==
    CASE v.t = "null" -> <<"null">>
      [] v.t = "json" -> <<v.v>>
      [] v.t = "rec" ->
           <<"{data:">> \o JSONstringify(v.data)
              \o <<",timestamp:", ToString(v.timestamp), ",origin:", v.origin, "}">>

\* JSON.parse on the texts JSON.stringify produces
RECURSIVE ParseText(_)
ParseText(txt) ==
    IF Len(txt) = 1
      THEN IF txt[1] = "null" THEN NullV ELSE Json(txt[1])
      ELSE ContentRecord(ParseText(SubSeq(txt, 2, Len(txt) - 5)),
                         CHOOSE n \in 0..(MaxPub + MaxSyncPub) : ToString(n) = txt[Len(txt) - 3],
                         txt[Len(txt) - 1])

\* JSON.parse(JSON.stringify(code)) of loadCode: a deep copy of a JSON value
Serializable(code) == ParseText(JSONstringify(code))

\* JavaScript truthiness of a value held in the model's domains
Truthy(v) == v.t \notin {"null", "undefined"}

\* ------------------------------------------------------------------- state
VARIABLES
    now,            \* the time of the latest publish (0: none yet)
    seq,            \* number of Y.Map.set calls on block-content so far
    clientID,       \* the clientID of each session's Y.Doc
    destroyed,      \* room page: whether onDestroy(cleanup) has run
    connected,      \* room page: connected
    blockContent,   \* room page: each session's replica of block-content
    editorContent,  \* room page: editorContent (the Editor's initCode)
    lastEditorUpdate, \* room page: lastEditorUpdate
    mousePositions, \* room page: each session's replica of mouse-positions
    users,          \* room page: users
    editorReady,    \* Editor: editorReady
    codeLoaded,     \* Editor: codeLoaded
    lastRoomState,  \* Editor: lastRoomState
    debounceTimer,  \* Editor: debounceTimer (0 is undefined)
    timers,         \* the browser's pending setTimeout ids of the Editor
    net,            \* block-content writes in flight, per receiving session
    pnet,           \* mouse-positions writes in flight, per receiving session
    posted,         \* the load messages the last handler run posted to each iframe
    shown,          \* the document each iframe displays
    hist            \* what the run has done so far (for stating properties)

vars == <<now, seq, clientID, destroyed, connected, blockContent, editorContent, lastEditorUpdate,
          mousePositions, users, editorReady, codeLoaded, lastRoomState,
          debounceTimer, timers, net, pnet, posted, shown, hist>>

roomVars == <<clientID, destroyed, connected, blockContent, editorContent, lastEditorUpdate>>
presenceVars == <<mousePositions, users, pnet>>

\* no load message posted
NoPosts == [c \in Clients |-> <<>>]

\* an absent mouse-positions entry
Absent == [x |-> -1, y |-> -1, color |-> ""]

\* a replica of block-content before any write: the three keys are absent
\* (an absent timestamp reads as 0 and an absent origin as '' wherever the
\* code reads them, through "|| 0", "|| Date.now()" and "|| ''")
\* pc, pt, po: the writers of the chain of writes that led to the key's
\* value, each write replacing the one before it.
EmptyRecord ==
    [content |-> NullV, timestamp |-> 0, origin |-> "",
     pc |-> <<>>, pt |-> <<>>, po |-> <<>>]

\* hist.last: the handler that ran last (kind), in which session (c), what it
\* did with its input (q), and how many observed updates its timer had
\* coalesced (n); kept for the steps in Evidence, the ones properties below
\* are stated about, and blank after every other step.  hist.burst: the observed updates the pending timer of a
\* session stands for (0, 1, or 2 for two or more).  hist.since: the sessions that have published since
\* a deferred-apply timer last fired.  hist.race: the session whose publish
\* was the last of two publishes by different sessions with no timer fired
\* in between ("" when the last two publishes were not such a pair).
\* hist.applied: the document of the record a session's deferred apply last
\* looked at.  hist.reported: the position of a session's latest pointer event, Absent
\* after a leave; hist.accepted: the same, of the latest pointer event the
\* session handled while connected.  hist.written: the timestamp a session
\* wrote to the record in its latest publish (0: it has not published).
Evidence ==
    { <<"timer", "apply">>, <<"timer", "skip">>, <<"change", "dropped">>,
      <<"status", "existing">>, <<"stop", "deleted">>, <<"change", "threw">> }

Step(kind, c, q, n) ==
    IF <<kind, q>> \in Evidence
      THEN [kind |-> kind, c |-> c, q |-> q, n |-> IF kind = "timer" THEN n ELSE 0]
      ELSE [kind |-> "", c |-> "", q |-> "", n |-> 0]

Init ==
    /\ now = 0
    /\ seq = 0
    /\ clientID \in {[c \in Clients |-> IF c = first THEN 1 ELSE 2] : first \in Clients}
    /\ destroyed = [c \in Clients |-> FALSE]
    /\ connected = [c \in Clients |-> FALSE]
    /\ blockContent = [c \in Clients |-> EmptyRecord]
    /\ editorContent = [c \in Clients |-> NullV]
    /\ lastEditorUpdate = [c \in Clients |-> 0]
    /\ mousePositions = [c \in Clients |-> [u \in UserIds |-> Absent]]
    /\ users = [c \in Clients |-> [u \in UserIds |-> Absent]]
    /\ editorReady = [c \in Clients |-> FALSE]
    /\ codeLoaded = [c \in Clients |-> FALSE]
    /\ lastRoomState = [c \in Clients |-> NullV]
    /\ debounceTimer = [c \in Clients |-> 0]
    /\ timers = [c \in Clients |-> {}]
    /\ net = [c \in Clients |-> <<>>]
    /\ pnet = [c \in Clients |-> <<>>]
    /\ posted = NoPosts
    /\ shown = [c \in Clients |-> NullV]
    /\ hist = [last |-> Step("init", "A", "", 0),
               burst |-> [c \in Clients |-> 0],
               since |-> {},
               race |-> "",
               applied |-> [c \in Clients |-> NullV],
               reported |-> [c \in Clients |-> Absent],
               accepted |-> [c \in Clients |-> Absent],
               written |-> [c \in Clients |-> 0]]

\* ------------------------------------------------------------ Editor.svelte
\* the Editor's initCode prop: the room page passes editorContent, so the
\* prop's default (undefined) never applies
initCode(c) == editorContent[c]

\* (mutant) the $effect without its origin test
EffectReturnsEarly_NoOrigin(c, ic) == ~Truthy(ic)

\* (mutant) the origin test of the $effect the wrong way round
EffectReturnsEarly_Inverted(c, ic) == ~Truthy(ic) \/ ic.origin # localUserId(c)

\* the guard of the $effect: it goes on to debounce unless this returns
EffectReturnsEarly(c, ic) == ~Truthy(ic) \/ ic.origin = localUserId(c)

\* (mutant) debounce that leaves the pending timer running
ClearTimeout_Forgotten(c) == timers[c]

\* clearTimeout(debounceTimer) when debounceTimer is not undefined
ClearTimeout(c) ==
    IF debounceTimer[c] # 0 THEN timers[c] \ {debounceTimer[c]} ELSE timers[c]

\* the id setTimeout returns: one no pending timer has
NewTimerId(pending) == CHOOSE i \in 1..(Cardinality(pending) + 1) : i \notin pending

\* (mutant) debounce that starts a timer without cancelling the pending one
Debounce_NoCancel(c) ==
    LET id == NewTimerId(timers[c])
    IN  /\ timers' = [timers EXCEPT ![c] = @ \cup {id}]
        /\ debounceTimer' = [debounceTimer EXCEPT ![c] = id]

\* debounce(fn, 10): cancel the pending timer, start a new one
Debounce(c) ==
    LET pending == ClearTimeout(c)
        id == NewTimerId(pending)
    IN  /\ timers' = [timers EXCEPT ![c] = pending \cup {id}]
        /\ debounceTimer' = [debounceTimer EXCEPT ![c] = id]

\* one run of the $effect with initCode = ic
RunEffect(c, ic) ==
    IF EffectReturnsEarly(c, ic)
      THEN UNCHANGED <<timers, debounceTimer>>
      ELSE Debounce(c)

\* (mutant) the comparison made on object identity: the observer builds a
\* new object for every update, so it never finds the state unchanged
RoomStateChanged_ByReference(c, ic) == TRUE

\* the comparison of the deferred apply: has the room state changed?
RoomStateChanged(c, ic) == JSONstringify(ic.data) # JSONstringify(lastRoomState[c])

\* (mutant) loadCode without its readiness test
LoadCodeRuns_Always(ready) == TRUE

\* whether loadCode goes past its first line (the iframe element is bound
\* when the component is mounted, so only editorReady decides)
LoadCodeRuns(ready) == ready

\* loadCode(code) called from call site via, with editorReady = ready
LoadCode(c, ready, code, via) ==
    IF LoadCodeRuns(ready)
      THEN /\ posted' = [NoPosts EXCEPT ![c] =
                            <<[data |-> Serializable(code), via |-> via]>>]
           /\ codeLoaded' = [codeLoaded EXCEPT ![c] = TRUE]
           /\ shown' = [shown EXCEPT ![c] = Serializable(code)]
      ELSE /\ posted' = NoPosts
           /\ UNCHANGED <<codeLoaded, shown>>

\* hist after a step that neither publishes nor fires a timer; sched tells
\* whether the step's effect run went on to debounce
Observed(c, kind, q, sched) ==
    LET b == IF sched
               THEN IF hist.burst[c] < 2 THEN hist.burst[c] + 1 ELSE 2
               ELSE hist.burst[c]
    IN  [hist EXCEPT !.last = Step(kind, c, q, b), !.burst[c] = b]

\* what Date.now() returns to a handler: a time after the latest publish
ClockReads == {now + 1}

\* the deferred apply: the callback debounce() hands to setTimeout, run when
\* timer id fires, followed by "debounceTimer = undefined".  Nothing cancels
\* the timer when the component is destroyed; the iframe is gone by then, so
\* loadCode returns at its first line.
TimerFire(c, id) ==
    /\ id \in timers[c]
    /\ timers' = [timers EXCEPT ![c] = @ \ {id}]
    /\ debounceTimer' = [debounceTimer EXCEPT ![c] = 0]
    /\ IF RoomStateChanged(c, initCode(c))
         THEN /\ LoadCode(c, editorReady[c] /\ ~destroyed[c], initCode(c).data, "effect")
              /\ lastRoomState' = [lastRoomState EXCEPT ![c] = initCode(c).data]
         ELSE /\ posted' = NoPosts
              /\ UNCHANGED <<codeLoaded, shown, lastRoomState>>
    /\ hist' = [hist EXCEPT
                  !.last = Step("timer", c,
                                IF RoomStateChanged(c, initCode(c)) THEN "apply" ELSE "skip",
                                hist.burst[c]),
                  !.burst[c] = 0,
                  !.since = {},
                  !.applied[c] = initCode(c).data]
    /\ UNCHANGED <<now, seq, roomVars, presenceVars, editorReady, net>>

\* handleMessage, case 'blocks.ready'
Ready(c) ==
    /\ editorReady' = [editorReady EXCEPT ![c] = TRUE]
    /\ IF initCode(c) # UndefinedV /\ ~codeLoaded[c]
         THEN LoadCode(c, TRUE, initCode(c), "ready")
         ELSE /\ posted' = NoPosts
              /\ UNCHANGED <<codeLoaded, shown>>
    /\ hist' = [hist EXCEPT
                  !.last = Step("ready", c,
                                IF initCode(c) # UndefinedV /\ ~codeLoaded[c]
                                  THEN "load" ELSE "none",
                                hist.burst[c])]
    /\ UNCHANGED <<now, seq, roomVars, presenceVars, lastRoomState, debounceTimer,
                   timers, net>>

\* loadRoomState: the "Load Room State" button
LoadRoomState(c) ==
    /\ IF Truthy(lastRoomState[c])
         THEN LoadCode(c, editorReady[c], lastRoomState[c], "manual")
         ELSE IF Truthy(initCode(c))
           THEN LoadCode(c, editorReady[c],
                         IF Truthy(initCode(c).data) THEN initCode(c).data ELSE initCode(c),
                         "manual")
           ELSE /\ posted' = NoPosts
                /\ UNCHANGED <<codeLoaded, shown>>
    /\ hist' = [hist EXCEPT !.last = Step("manual", c, "", hist.burst[c])]
    /\ UNCHANGED <<now, seq, roomVars, presenceVars, editorReady, lastRoomState,
                   debounceTimer, timers, net>>

\* ------------------------------------------------------------ the room page
\* whether chain p starts with chain q
IsPrefix(q, p) == Len(q) <= Len(p) /\ SubSeq(p, 1, Len(q)) = q

\* whether the write with chain p stands against the write with chain q: it
\* replaced q's write or a successor of it, or, where the chains part, its
\* side was written by the document with the larger clientID
Supersedes(p, q) ==
    IF IsPrefix(q, p) THEN TRUE
    ELSE IF IsPrefix(p, q) THEN FALSE
    ELSE LET i == CHOOSE j \in 1..Len(p) :
                     /\ p[j] # q[j]
                     /\ \A k \in 1..(j - 1) : p[k] = q[k]
         IN  clientID[p[i]] > clientID[q[i]]

\* a replica integrating one replicated Y.Map.set
Integrate(bc, m) ==
    CASE m.key = "content" ->
           IF Supersedes(m.p, bc.pc) THEN [bc EXCEPT !.content = m.v, !.pc = m.p] ELSE bc
      [] m.key = "timestamp" ->
           IF Supersedes(m.p, bc.pt) THEN [bc EXCEPT !.timestamp = m.v, !.pt = m.p] ELSE bc
      [] m.key = "origin" ->
           IF Supersedes(m.p, bc.po) THEN [bc EXCEPT !.origin = m.v, !.po = m.p] ELSE bc

\* blockContent.set('content', ..), .set('timestamp', ..), .set('origin', ..)
\* by session w on its replica bc: a local write replaces the value it finds
ThreeSets(bc, w, data, timestamp, origin) ==
    [content |-> data, timestamp |-> timestamp, origin |-> origin,
     pc |-> Append(bc.pc, w), pt |-> Append(bc.pt, w), po |-> Append(bc.po, w)]

\* the three writes as the relay passes them on, in the order they were made
SetMessages(bc, w, data, timestamp, origin) ==
    << [key |-> "content", v |-> data, p |-> Append(bc.pc, w)],
       [key |-> "timestamp", v |-> timestamp, p |-> Append(bc.pt, w)],
       [key |-> "origin", v |-> origin, p |-> Append(bc.po, w)] >>

\* the value blockContent.observe assigns to editorContent when the replica
\* is bc (content is truthy there)
ObservedContent(bc) == ContentRecord(bc.content, bc.timestamp, bc.origin)

\* a replicated write reaches session c: the replica integrates it and
\* blockContent.observe runs, then the Editor's $effect
Deliver(c) ==
    /\ connected[c]
    /\ net[c] # <<>>
    /\ LET bc == Integrate(blockContent[c], Head(net[c]))
       IN  /\ blockContent' = [blockContent EXCEPT ![c] = bc]
           /\ net' = [net EXCEPT ![c] = Tail(@)]
           /\ IF Truthy(bc.content)
                THEN /\ editorContent' = [editorContent EXCEPT ![c] = ObservedContent(bc)]
                     /\ lastEditorUpdate' = [lastEditorUpdate EXCEPT ![c] = bc.timestamp]
                     /\ RunEffect(c, ObservedContent(bc))
                     /\ hist' = Observed(c, "observe", Head(net[c]).key,
                                         ~EffectReturnsEarly(c, ObservedContent(bc)))
                ELSE /\ UNCHANGED <<editorContent, lastEditorUpdate, timers, debounceTimer>>
                     /\ hist' = Observed(c, "observe", "absent", FALSE)
    /\ posted' = NoPosts
    /\ UNCHANGED <<now, seq, clientID, destroyed, connected, presenceVars, editorReady,
                   codeLoaded, lastRoomState, shown>>

\* (mutant) a status handler that only records the status
Status_NoInitialSync(c, s, t) ==
    /\ connected' = [connected EXCEPT ![c] = (s = "connected")]
    /\ hist' = Observed(c, "status", s, FALSE)
    /\ posted' = NoPosts
    /\ UNCHANGED <<now, seq, clientID, destroyed, blockContent, editorContent,
                   lastEditorUpdate,
                   presenceVars, editorReady, codeLoaded, lastRoomState, debounceTimer,
                   timers, net, shown>>

\* provider.on('status'): the relay connection reports status s; t is what
\* Date.now() returns if the handler reads it
Status(c, s, t) ==
    /\ connected' = [connected EXCEPT ![c] = (s = "connected")]
    /\ IF (s = "connected") /\ ~connected[c] /\ Truthy(blockContent[c].content)
         THEN LET bc == blockContent[c]
                  readsClock == bc.timestamp = 0
                  ec == ContentRecord(bc.content,
                                      IF readsClock THEN t ELSE bc.timestamp,
                                      bc.origin)
              IN  /\ editorContent' = [editorContent EXCEPT ![c] = ec]
                  /\ RunEffect(c, ec)
                  /\ hist' = Observed(c, "status", "existing", ~EffectReturnsEarly(c, ec))
         ELSE /\ hist' = Observed(c, "status", s, FALSE)
              /\ UNCHANGED <<editorContent, timers, debounceTimer>>
    /\ posted' = NoPosts
    /\ UNCHANGED <<now, seq, clientID, destroyed, blockContent, lastEditorUpdate,
                   presenceVars,
                   editorReady, codeLoaded, lastRoomState, net, shown>>

\* (mutant) the connection test the wrong way round
SessionCanPublish_Inverted(c) == ~connected[c]

\* (mutant) handleEditorContentChange without the connection test
SessionCanPublish_Always(c) == TRUE

\* whether handleEditorContentChange goes past its first line
SessionCanPublish(c) == connected[c]

\* (mutant) a publish stamped with the timestamp the replica holds
timestamp_FromRecord(c, content) ==
    IF blockContent[c].timestamp # 0 THEN blockContent[c].timestamp ELSE content.timestamp

\* the timestamp of a publish: "content.timestamp || Date.now()", where
\* content.timestamp is what Date.now() returned to the Editor's handler and
\* so is never 0
timestamp(c, content) == content.timestamp

\* handleEditorContentChange(content): three consecutive Y.Map.set calls, each
\* observed locally at once and replicated to the other session
HandleEditorContentChange(c, content) ==
    IF ~SessionCanPublish(c)
      THEN /\ hist' = [hist EXCEPT !.last = Step("change", c, "offline", hist.burst[c])]
           /\ UNCHANGED <<now, seq, blockContent, editorContent, lastEditorUpdate, net,
                          timers, debounceTimer>>
      ELSE IF ~Truthy(content) \/ ~Truthy(content.data)
        THEN /\ hist' = [hist EXCEPT !.last = Step("change", c, "empty", hist.burst[c])]
             /\ UNCHANGED <<now, seq, blockContent, editorContent, lastEditorUpdate, net,
                            timers, debounceTimer>>
        ELSE LET ts == timestamp(c, content)
                 origin == content.origin
                 ec == ContentRecord(content.data, ts, origin)
             IN  /\ seq' = seq + 3
                 /\ now' = ts
                 /\ blockContent' = [blockContent EXCEPT ![c] =
                        ThreeSets(@, c, content.data, ts, origin)]
                 /\ net' = [net EXCEPT ![Other(c)] = @ \o
                        SetMessages(blockContent[c], c, content.data, ts, origin)]
                 /\ editorContent' = [editorContent EXCEPT ![c] = ec]
                 /\ lastEditorUpdate' = [lastEditorUpdate EXCEPT ![c] = ts]
                 /\ RunEffect(c, ec)
                 /\ hist' = [hist EXCEPT
                        !.last = Step("change", c, "published", hist.burst[c]),
                        !.written[c] = ts,
                        !.since = hist.since \cup {c},
                        !.race = IF hist.since \cup {c} = Clients THEN c ELSE ""]

\* (mutant) the classification without the recordUndo test
Propagates_IgnoreUndo(el, undo) == el # "selected"

\* whether an editor change is one to publish: not a selection event and
\* one the editor records for undo
Propagates(el, undo) == ~(el = "selected" \/ ~undo)

\* whether a change notification gets as far as the three writes
Publishes(c, raw, el, undo) ==
    /\ editorReady[c] /\ TruthyString(raw)
    /\ Propagates(el, undo)
    /\ Parses(raw)
    /\ SessionCanPublish(c)
    /\ Truthy(JSONparse(raw))

\* handleMessage, case 'blocks.updateProject': the iframe reports a change
\* with data.data = raw and data.event = {element: el, recordUndo: undo};
\* t is what Date.now() returns if the handler reads it
UpdateProject(c, raw, el, undo, t) ==
    /\ IF ~(editorReady[c] /\ TruthyString(raw))
         THEN /\ hist' = [hist EXCEPT !.last = Step("change", c, "ignored", hist.burst[c])]
              /\ UNCHANGED <<now, seq, blockContent, editorContent, lastEditorUpdate,
                             net, timers, debounceTimer, shown>>
         ELSE IF ~Propagates(el, undo)
           THEN /\ hist' = [hist EXCEPT !.last = Step("change", c, "dropped", hist.burst[c])]
                /\ UNCHANGED <<now, seq, blockContent, editorContent, lastEditorUpdate,
                               net, timers, debounceTimer, shown>>
           ELSE IF ~Parses(raw)
             \* JSON.parse throws, nothing in handleMessage catches it: the
             \* handler ends there with an uncaught SyntaxError
             THEN /\ hist' = [hist EXCEPT !.last = Step("change", c, "threw", hist.burst[c])]
                  /\ UNCHANGED <<now, seq, blockContent, editorContent, lastEditorUpdate,
                                 net, timers, debounceTimer, shown>>
             ELSE /\ shown' = [shown EXCEPT ![c] = JSONparse(raw)]
                  /\ HandleEditorContentChange(c,
                        [t |-> "rec", data |-> JSONparse(raw),
                         origin |-> localUserId(c), timestamp |-> t])
    /\ posted' = NoPosts
    /\ UNCHANGED <<clientID, destroyed, connected, presenceVars, editorReady, codeLoaded,
                   lastRoomState>>

\* ---------------------------------------------------------------- presence
\* the position handleMouseMove computes from a mouse event and the
\* tracking area's bounding rectangle
PointerPosition(c, ev) ==
    [x |-> ev.clientX - ev.left, y |-> ev.clientY - ev.top, color |-> userColor(c)]

\* where in the tracking area the pointer of a mouse event is
AreaPosition(c, ev) ==
    [x |-> ev.clientX - ev.left, y |-> ev.clientY - ev.top, color |-> userColor(c)]

\* (mutant) an observer that copies the map's first key only
RebuildUsers_FirstKeyOnly(mp) == [u \in UserIds |-> IF u = userId("A") THEN mp[u] ELSE Absent]

\* mousePositions.observe: users becomes a copy of the whole map
RebuildUsers(mp) == [u \in UserIds |-> mp[u]]

\* (mutant) pointer handlers without the connection test
PresenceCanWrite_Always(c) == TRUE

\* whether the pointer handlers go past their guard
PresenceCanWrite(c) == connected[c]

\* handleMouseMove(event)
HandleMouseMove(c, ev) ==
    /\ IF PresenceCanWrite(c)
         THEN LET mp == [mousePositions[c] EXCEPT ![userId(c)] = PointerPosition(c, ev)]
              IN  /\ Len(pnet[Other(c)]) < MaxMoves
                  /\ mousePositions' = [mousePositions EXCEPT ![c] = mp]
                  /\ users' = [users EXCEPT ![c] = RebuildUsers(mp)]
                  /\ pnet' = [pnet EXCEPT ![Other(c)] =
                                Append(@, [key |-> userId(c), v |-> PointerPosition(c, ev)])]
         ELSE UNCHANGED presenceVars
    /\ hist' = [hist EXCEPT
                  !.last = Step("move", c, "", 0),
                  !.reported[c] = AreaPosition(c, ev),
                  !.accepted[c] = IF connected[c] THEN AreaPosition(c, ev) ELSE @]
    /\ posted' = NoPosts
    /\ UNCHANGED <<now, seq, roomVars, editorReady, codeLoaded, lastRoomState,
                   debounceTimer, timers, net, shown>>

\* (mutant) handleMouseLeave that empties the map instead of deleting the
\* session's own key
HandleMouseLeave_ClearsMap(c) ==
    /\ IF PresenceCanWrite(c) /\ mousePositions[c] # [u \in UserIds |-> Absent]
         THEN LET mp == [u \in UserIds |-> Absent]
                  gone == CHOOSE u \in UserIds : mousePositions[c][u] # Absent
              IN  /\ Len(pnet[Other(c)]) < MaxMoves
                  /\ mousePositions' = [mousePositions EXCEPT ![c] = mp]
                  /\ users' = [users EXCEPT ![c] = RebuildUsers(mp)]
                  /\ pnet' = [pnet EXCEPT ![Other(c)] =
                                Append(@, [key |-> gone, v |-> Absent])]
         ELSE UNCHANGED presenceVars
    /\ hist' = [hist EXCEPT
                  !.last = Step("leave", c, "", 0),
                  !.reported[c] = Absent,
                  !.accepted[c] = IF connected[c] THEN Absent ELSE @]
    /\ posted' = NoPosts
    /\ UNCHANGED <<now, seq, roomVars, editorReady, codeLoaded, lastRoomState,
                   debounceTimer, timers, net, shown>>

\* handleMouseLeave(): deleting a key the map does not hold changes nothing
\* and calls no observer
HandleMouseLeave(c) ==
    /\ IF PresenceCanWrite(c) /\ mousePositions[c][userId(c)] # Absent
         THEN LET mp == [mousePositions[c] EXCEPT ![userId(c)] = Absent]
              IN  /\ Len(pnet[Other(c)]) < MaxMoves
                  /\ mousePositions' = [mousePositions EXCEPT ![c] = mp]
                  /\ users' = [users EXCEPT ![c] = RebuildUsers(mp)]
                  /\ pnet' = [pnet EXCEPT ![Other(c)] =
                                Append(@, [key |-> userId(c), v |-> Absent])]
         ELSE UNCHANGED presenceVars
    /\ hist' = [hist EXCEPT
                  !.last = Step("leave", c, "", 0),
                  !.reported[c] = Absent,
                  !.accepted[c] = IF connected[c] THEN Absent ELSE @]
    /\ posted' = NoPosts
    /\ UNCHANGED <<now, seq, roomVars, editorReady, codeLoaded, lastRoomState,
                   debounceTimer, timers, net, shown>>

\* a replicated mouse-positions write reaches session c and
\* mousePositions.observe runs
PresenceDeliver(c) ==
    /\ connected[c]
    /\ pnet[c] # <<>>
    /\ LET m == Head(pnet[c])
           mp == [mousePositions[c] EXCEPT ![m.key] = m.v]
       IN  /\ mousePositions' = [mousePositions EXCEPT ![c] = mp]
           /\ users' = [users EXCEPT ![c] = RebuildUsers(mp)]
           /\ pnet' = [pnet EXCEPT ![c] = Tail(@)]
    /\ hist' = [hist EXCEPT !.last = Step("presence", c, "", 0)]
    /\ posted' = NoPosts
    /\ UNCHANGED <<now, seq, roomVars, editorReady, codeLoaded, lastRoomState,
                   debounceTimer, timers, net, shown>>

\* (mutant) cleanup that releases the connection before it looks at the
\* presence entry: connected is false by then and nothing is deleted
Cleanup_DisconnectFirst(c) ==
    /\ ~destroyed[c]
    /\ destroyed' = [destroyed EXCEPT ![c] = TRUE]
    /\ connected' = [connected EXCEPT ![c] = FALSE]
    /\ hist' = [hist EXCEPT !.last = Step("stop", c, "none", 0)]
    /\ posted' = NoPosts
    /\ UNCHANGED <<now, seq, clientID, blockContent, editorContent, lastEditorUpdate,
                   presenceVars, editorReady, codeLoaded, lastRoomState, debounceTimer,
                   timers, net, shown>>

\* cleanup(), run by onDestroy: mousePositions.delete(userId) when connected,
\* made while the connection is still open, so the deletion is passed on;
\* then provider.disconnect(), after which the session is not connected
Cleanup(c) ==
    /\ ~destroyed[c]
    /\ destroyed' = [destroyed EXCEPT ![c] = TRUE]
    /\ IF connected[c] /\ mousePositions[c][userId(c)] # Absent
         THEN LET mp == [mousePositions[c] EXCEPT ![userId(c)] = Absent]
              IN  /\ mousePositions' = [mousePositions EXCEPT ![c] = mp]
                  /\ users' = [users EXCEPT ![c] = RebuildUsers(mp)]
                  /\ pnet' = [pnet EXCEPT ![Other(c)] =
                                Append(@, [key |-> userId(c), v |-> Absent])]
                  /\ hist' = [hist EXCEPT !.last = Step("stop", c, "deleted", 0)]
         ELSE /\ UNCHANGED presenceVars
              /\ hist' = [hist EXCEPT !.last = Step("stop", c, "none", 0)]
    /\ connected' = [connected EXCEPT ![c] = FALSE]
    /\ posted' = NoPosts
    /\ UNCHANGED <<now, seq, clientID, blockContent, editorContent, lastEditorUpdate,
                   editorReady, codeLoaded, lastRoomState, debounceTimer, timers, net,
                   shown>>

\* the mouse events of the model: the pointer at two places of the tracking
\* area, one of them seen with two different page offsets of the area
PointerEvents ==
    { [clientX |-> 3, clientY |-> 2, left |-> 1, top |-> 1],
      [clientX |-> 2, clientY |-> 1, left |-> 0, top |-> 0],
      [clientX |-> 1, clientY |-> 1, left |-> 0, top |-> 0] }

\* a replica integrating the first k writes of a queue
RECURSIVE IntegrateFirst(_, _, _)
IntegrateFirst(bc, q, k) ==
    IF k = 0 THEN bc ELSE IntegrateFirst(Integrate(bc, Head(q)), Tail(q), k - 1)

\* another participant's session, having received k more of the writes on
\* their way to it, publishes document data at its time t: the three writes
\* of its handleEditorContentChange, on their way to c
RemotePublish(c, data, t, k) ==
    LET peer == Other(c)
        bc == IntegrateFirst(blockContent[peer], net[peer], k)
    IN  /\ seq' = seq + 3
        /\ blockContent' = [blockContent EXCEPT ![peer] =
               ThreeSets(bc, peer, data, t, localUserId(peer))]
        /\ net' = [net EXCEPT
               ![peer] = SubSeq(@, k + 1, Len(@)),
               ![c] = @ \o SetMessages(bc, peer, data, t, localUserId(peer))]
        /\ now' = t
        /\ posted' = NoPosts
        /\ hist' = [hist EXCEPT !.last = Step("remote", c, "", hist.burst[c])]
        /\ UNCHANGED <<clientID, destroyed, connected, editorContent, lastEditorUpdate,
                       presenceVars, editorReady, codeLoaded, lastRoomState,
                       debounceTimer, timers, shown>>

\* the change notifications an iframe sends: one of each kind the handler
\* tells apart, and the documents as recorded edits
EditorMessages ==
    { <<"", "block", TRUE>>, <<"{", "block", TRUE>>, <<"null", "block", TRUE>>,
      <<"x", "selected", TRUE>>, <<"y", "block", FALSE>>, <<"{", "selected", FALSE>>,
      <<"x", "block", TRUE>>, <<" x", "block", TRUE>>, <<"y", "block", TRUE>> }

Statuses == {"connecting", "connected", "disconnected"}

\* the documents a participant may publish
Documents == {Json("x"), Json("y")}

\* ------------------------------------------------- one session and its peers
\* The session under study is A; the other participants are its environment:
\* they publish, and their writes reach A through the relay.
Session == "A"

Next ==
    \/ \E s \in Statuses, t \in ClockReads : Status(Session, s, t)
    \/ Ready(Session)
    \/ \E m \in EditorMessages, t \in ClockReads :
          /\ Publishes(Session, m[1], m[2], m[3]) => seq < 3 * MaxPub
          /\ UpdateProject(Session, m[1], m[2], m[3], t)
    \/ Deliver(Session)
    \/ \E id \in timers[Session] : TimerFire(Session, id)
    \/ LoadRoomState(Session)
    \/ \E d \in Documents, t \in ClockReads, k \in 0..Len(net[Other(Session)]) :
          /\ seq < 3 * MaxPub
          /\ RemotePublish(Session, d, t, k)

Spec == Init /\ [][Next]_vars

\* ------------------------------------------------------------- two sessions
\* Both participants run the program; their connections stay up and their
\* users make recorded edits only.
RecordedEdits == {m \in EditorMessages : m[1] \in {"x", "y"} /\ m[2] = "block" /\ m[3]}

SyncNext ==
    \/ \E c \in Clients, t \in ClockReads : Status(c, "connected", t)
    \/ \E c \in Clients : Ready(c)
    \/ \E c \in Clients, m \in RecordedEdits, t \in ClockReads :
          /\ Publishes(c, m[1], m[2], m[3]) => seq < 3 * MaxSyncPub
          /\ UpdateProject(c, m[1], m[2], m[3], t)
    \/ \E c \in Clients : Deliver(c)
    \/ \E c \in Clients : \E id \in timers[c] : TimerFire(c, id)

SyncSpec == Init /\ [][SyncNext]_vars

\* ---------------------------------------------------- presence, two sessions
PresenceNext ==
    \/ \E c \in Clients, s \in Statuses, t \in ClockReads : Status(c, s, t)
    \/ \E c \in Clients, ev \in PointerEvents : HandleMouseMove(c, ev)
    \/ \E c \in Clients : HandleMouseLeave(c)
    \/ \E c \in Clients : PresenceDeliver(c)

PresenceSpec == Init /\ [][PresenceNext]_vars

\* ------------------------------------------- presence and stop, two sessions
\* The pointer stays at one place; either page may be left at any time,
\* after which none of its handlers runs and its provider does not reconnect.
StopEvents == {ev \in PointerEvents : ev.clientX = 3}

StopNext ==
    \/ \E c \in Clients, s \in Statuses, t \in ClockReads :
          ~destroyed[c] /\ Status(c, s, t)
    \/ \E c \in Clients, ev \in StopEvents : ~destroyed[c] /\ HandleMouseMove(c, ev)
    \/ \E c \in Clients : ~destroyed[c] /\ HandleMouseLeave(c)
    \/ \E c \in Clients : ~destroyed[c] /\ PresenceDeliver(c)
    \/ \E c \in Clients : Cleanup(c)

StopSpec == Init /\ [][StopNext]_vars

\* ------------------------------------------- the room page, content and presence
\* The handlers of the room page of session A, whose connection comes and
\* goes: pointer events over the tracking area and changes reported by its
\* editor.  The other session only receives.
PageNext ==
    \/ \E s \in Statuses, t \in ClockReads : Status(Session, s, t)
    \/ Ready(Session)
    \/ \E m \in EditorMessages, t \in ClockReads :
          /\ Publishes(Session, m[1], m[2], m[3]) => seq < 3 * MaxPub
          /\ UpdateProject(Session, m[1], m[2], m[3], t)
    \/ \E ev \in PointerEvents : HandleMouseMove(Session, ev)
    \/ HandleMouseLeave(Session)
    \/ \E t \in ClockReads : Status(Other(Session), "connected", t)
    \/ PresenceDeliver(Other(Session))

PageSpec == Init /\ [][PageNext]_vars

\* ------------------------------------------------ one session and its teardown
\* Session A receives what the other participants publish, and its page may
\* be left at any time.  After that none of its handlers runs; a timer the
\* Editor started before is still the browser's to fire.
TeardownNext ==
    \/ \E s \in Statuses, t \in ClockReads : ~destroyed[Session] /\ Status(Session, s, t)
    \/ ~destroyed[Session] /\ Ready(Session)
    \/ ~destroyed[Session] /\ Deliver(Session)
    \/ \E id \in timers[Session] : TimerFire(Session, id)
    \/ \E d \in Documents, t \in ClockReads, k \in 0..Len(net[Other(Session)]) :
          /\ ~destroyed[Session]
          /\ seq < 3 * MaxPub
          /\ RemotePublish(Session, d, t, k)
    \/ Cleanup(Session)

TeardownSpec == Init /\ [][TeardownNext]_vars

\* ------------------------------------------------ one session, separate clocks
\* Session A's clock never goes back: what Date.now() returns to it is no
\* earlier than what it returned for its latest publish.  The clocks of the
\* other participants are their own: their publishes carry any time.  The
\* run is long enough for a publish of another participant between two of A;
\* A publishes document x and the others document y.
Times == 1..(MaxPub + 1)

LocalClockReads(c) == {t \in Times : t >= hist.written[c]}

ClockNext ==
    \/ \E t \in LocalClockReads(Session) : Status(Session, "connected", t)
    \/ Ready(Session)
    \/ \E m \in {<<"x", "block", TRUE>>}, t \in LocalClockReads(Session) :
          /\ Publishes(Session, m[1], m[2], m[3]) => seq < 3 * (MaxPub + 1)
          /\ UpdateProject(Session, m[1], m[2], m[3], t)
    \/ Deliver(Session)
    \/ \E id \in timers[Session] : TimerFire(Session, id)
    \/ \E d \in {Json("y")}, t \in Times, k \in 0..Len(net[Other(Session)]) :
          /\ seq < 3 * (MaxPub + 1)
          /\ RemotePublish(Session, d, t, k)

ClockSpec == Init /\ [][ClockNext]_vars

\* ---------------------------------------------------------------------------
\* Properties
\* ---------------------------------------------------------------------------

\* the document inside a load: the ready handler hands loadCode the whole
\* wrapper, the deferred apply hands it the wrapper's data
Content(v) == IF v.t = "rec" THEN v.data ELSE v

\* the load the deferred apply of a session posts for document d
EffectLoad(d) == <<[data |-> d, via |-> "effect"]>>

\* the session's connection comes up while its replica holds a document
Reconnects(c, s) == s = "connected" /\ ~connected[c] /\ Truthy(blockContent[c].content)

\* C1: a burst of one or more shared-content updates observed by a session
\* with a ready editor inside one debounce window ends in a single deferred
\* apply (one timer is pending when it fires), which posts exactly one load,
\* carrying the content of the last update, when that content differs from
\* the last-loaded snapshot, and posts nothing when it is equal to it.
C1_BurstOneLoad ==
    [][\A id \in timers[Session] :
          (editorReady[Session] /\ hist.burst[Session] >= 1 /\ TimerFire(Session, id))
          => /\ timers[Session] = {id}
             /\ timers'[Session] = {}
             /\ posted'[Session] =
                   IF blockContent[Session].content = lastRoomState[Session]
                     THEN <<>>
                     ELSE EffectLoad(blockContent[Session].content)]_vars

\* a burst of two or more updates has ended in one load
C1_Witness ==
    /\ hist.last.kind = "timer"
    /\ hist.last.q = "apply"
    /\ hist.last.n >= 2
    /\ editorReady[Session]
    /\ Len(posted[Session]) = 1

\* every update has been delivered and every deferred apply has fired
Quiescent ==
    \A c \in Clients : net[c] = <<>> /\ timers[c] = {}

\* C2: last write wins.  When both sessions have published an edit with no
\* deferred apply fired in between, and the edit of session c is the one the
\* shared record ends up with, then once every update is delivered and every
\* timer has fired the document last loaded into or authored in the editor
\* of either session is the document c published.
C2_LastWriteWins ==
    \A c \in Clients :
        (/\ hist.race = c
         /\ Quiescent
         /\ blockContent["A"] = blockContent["B"]
         /\ blockContent[c].pc # <<>>
         /\ blockContent[c].pc[Len(blockContent[c].pc)] = c
         /\ blockContent[c].origin = localUserId(c))
        => \A d \in Clients : Content(shown[d]) = blockContent[c].content

\* C3: no load posted to a session's editor by the editor component itself
\* (deferred apply or ready handler) carries a document that the session
\* wrote itself, i.e. one whose record has the session's own origin.
C3_NoOwnLoad ==
    \A c \in {Session} :
        (posted[c] # <<>> /\ posted[c][1].via # "manual")
        => ~ /\ blockContent[c].origin = localUserId(c)
             /\ blockContent[c].pc # <<>>
             /\ blockContent[c].pc[Len(blockContent[c].pc)] = c
             /\ Content(posted[c][1].data) = blockContent[c].content

\* C4: the path from the shared record to the editor never writes the
\* record.  A step in which the session observes an update, a status change
\* or the firing of its deferred apply makes no Y.Map.set and sends nothing;
\* and a step in which the session publishes and observes its own write makes
\* the three sets of one publish only, schedules no apply and posts no load.
\* (Stated from the effect: a step that writes or sends is none of the
\* former, a step that does anything else is not the latter.)
C4_NoEcho ==
    [][/\ (seq' # seq \/ net'[Other(Session)] # net[Other(Session)])
          => ~ \/ Deliver(Session)
               \/ \E s \in Statuses, t \in ClockReads : Status(Session, s, t)
               \/ \E id \in timers[Session] : TimerFire(Session, id)
       /\ ( \/ seq' \notin {seq, seq + 3}
            \/ timers'[Session] # timers[Session]
            \/ posted'[Session] # <<>>)
          => ~ \E m \in EditorMessages, t \in ClockReads :
                  UpdateProject(Session, m[1], m[2], m[3], t)]_vars

\* the session has observed its own write and nothing came of it
C4_Witness ==
    /\ editorContent[Session].t = "rec"
    /\ editorContent[Session].origin = localUserId(Session)
    /\ seq = 3
    /\ timers[Session] = {}
    /\ net[Other(Session)] # <<>>

\* C5: an editor change that is a selection event, is not recorded for undo,
\* or has no payload is never written to the shared record: the handler
\* leaves the replica alone and sends nothing (a step that changes the
\* replica or sends is not the handling of such a change).
C5_NonPropagating ==
    [][(blockContent'[Session] # blockContent[Session] \/ seq' # seq \/ net' # net)
       => ~ \E m \in EditorMessages, t \in ClockReads :
               /\ m[2] = "selected" \/ ~m[3] \/ m[1] = ""
               /\ UpdateProject(Session, m[1], m[2], m[3], t)]_vars

\* a connected session with a ready editor has dropped such a change
C5_Witness ==
    /\ hist.last.kind = "change"
    /\ hist.last.q = "dropped"
    /\ connected[Session]
    /\ editorReady[Session]
    /\ blockContent[Session] = EmptyRecord

\* C6 (as stated): every change a ready editor reports with a document as
\* payload, not a selection event and recorded for undo, is written to the
\* shared record within the handler invocation, whatever the status of the
\* connection.
C6_AlwaysPublished ==
    [][\A m \in EditorMessages, t \in ClockReads :
          (/\ editorReady[Session]
           /\ Parses(m[1]) /\ Truthy(JSONparse(m[1]))
           /\ m[2] # "selected" /\ m[3]
           /\ UpdateProject(Session, m[1], m[2], m[3], t))
          => /\ blockContent'[Session].content = JSONparse(m[1])
             /\ seq' = seq + 3]_vars

\* C6 (amended): such a change is written to the shared record within the
\* handler invocation when the session is connected: content, timestamp and
\* origin are set, and the three writes are sent to the other session.
C6_PublishedWhenConnected ==
    [][\A m \in EditorMessages, t \in ClockReads :
          (/\ connected[Session]
           /\ editorReady[Session]
           /\ Parses(m[1]) /\ Truthy(JSONparse(m[1]))
           /\ m[2] # "selected" /\ m[3]
           /\ UpdateProject(Session, m[1], m[2], m[3], t))
          => /\ blockContent'[Session].content = JSONparse(m[1])
             /\ blockContent'[Session].timestamp = t
             /\ blockContent'[Session].origin = localUserId(Session)
             /\ seq' = seq + 3
             /\ Len(net'[Other(Session)]) = Len(net[Other(Session)]) + 3]_vars

\* a connected session has published a change of its editor
C6_Witness ==
    /\ connected[Session]
    /\ editorReady[Session]
    /\ blockContent[Session].origin = localUserId(Session)
    /\ Truthy(blockContent[Session].content)
    /\ shown[Session] = blockContent[Session].content

\* C7 (as stated): whatever pointer moves, pointer leaves and status changes
\* have happened, the entry of the shared presence map under a participant's
\* own id is the position its pointer was last reported at, and is absent
\* after a pointer leave.
C7_EntryIsLastReported ==
    \A c \in Clients : mousePositions[c][userId(c)] = hist.reported[c]

\* C7 (amended): the entry under a participant's own id is the position of
\* the latest pointer event the session handled while connected, absent when
\* that event was a pointer leave; and the other session's replica has the
\* same entry once every presence update has reached it.
C7_EntryIsLastAccepted ==
    \A c \in Clients :
        /\ mousePositions[c][userId(c)] = hist.accepted[c]
        /\ pnet[Other(c)] = <<>> => mousePositions[Other(c)][userId(c)] = hist.accepted[c]

\* a pointer event of a disconnected session after one it handled connected
C7_Witness ==
    \E c \in Clients :
        /\ ~connected[c]
        /\ hist.accepted[c] # Absent
        /\ hist.reported[c] # hist.accepted[c]
        /\ pnet[Other(c)] = <<>>
        /\ mousePositions[Other(c)][userId(c)] = hist.accepted[c]

\* C8: no load is posted to the editor before a content write has been
\* observed: whenever a load has just been posted, the session holds an
\* observed record.  In particular the editor's ready signal, arriving while
\* the content is still null, posts nothing.
C8_NoLoadOfNull ==
    \A c \in {Session} :
        (posted[c] # <<>> /\ posted[c][1].via # "manual") => Truthy(editorContent[c])

\* C9 (as stated): when the connection comes up and the replica holds a
\* document, the document is posted to a ready editor in that very step.
C9_ImmediateLoad ==
    [][\A s \in Statuses, t \in ClockReads :
          (Reconnects(Session, s) /\ editorReady[Session] /\ Status(Session, s, t))
          => /\ Len(posted'[Session]) = 1
             /\ Content(posted'[Session][1].data) = blockContent[Session].content]_vars

\* C9 (amended): when the connection comes up and the replica holds a
\* document, the session hands the existing record to the editor component in
\* that step; nothing is posted in the step, and a deferred apply is pending
\* after it when the record's origin is not the editor's own.
C9_DeferredLoad ==
    [][\A s \in Statuses, t \in ClockReads :
          (Reconnects(Session, s) /\ Status(Session, s, t))
          => /\ editorContent'[Session].t = "rec"
             /\ editorContent'[Session].data = blockContent[Session].content
             /\ editorContent'[Session].origin = blockContent[Session].origin
             /\ posted'[Session] = <<>>
             /\ blockContent[Session].origin # localUserId(Session)
                   => Cardinality(timers'[Session]) = 1
             /\ blockContent[Session].origin = localUserId(Session)
                   => timers'[Session] = timers[Session]]_vars

\* the connection of a ready editor came up over an existing document of the
\* other participant
C9_Witness ==
    /\ hist.last.kind = "status"
    /\ hist.last.q = "existing"
    /\ editorReady[Session]
    /\ blockContent[Session].origin = localUserId(Other(Session))
    /\ timers[Session] # {}

C11_NoLoadBeforeReady ==
    \A c \in Clients :
        ~editorReady[c] => /\ posted[c] = <<>>
                           /\ ~codeLoaded[c]
                           /\ shown[c] = NullV

\* a deferred apply has pushed a document while the editor was not ready
C11_Witness ==
    /\ ~editorReady[Session]
    /\ Truthy(lastRoomState[Session])
    /\ Truthy(hist.applied[Session])
    /\ hist.last.kind = "timer"
    /\ hist.last.q = "apply"
    /\ posted[Session] = <<>>

\* the most recent content payload a session knows of: the data of the
\* record it observed last, null when it has observed none
KnownContent(c) == IF Truthy(editorContent[c]) THEN editorContent[c].data ELSE NullV

\* C12: across one editor lifetime the ready signals cause one delivery: a
\* ready signal that finds nothing loaded yet posts exactly one load, whose
\* payload is the most recent known content payload, and a ready signal
\* after a load has been delivered posts nothing.
C12_ReadyDeliversContentOnce ==
    [][Ready(Session)
       => IF codeLoaded[Session]
            THEN posted'[Session] = <<>>
            ELSE posted'[Session] = <<[data |-> KnownContent(Session), via |-> "ready"]>>]_vars

\* the replicated deletion of a session's own presence entry
OwnDeletion(c) == [key |-> userId(c), v |-> Absent]

\* C13: when a session stops, its own presence entry is deleted if the
\* session is connected, and the deletion is made before the connection is
\* released, so that it is passed on to the other session; the connection
\* is released in every case, and a session that is not connected deletes
\* nothing.
C13_StopOrder ==
    [][\A c \in Clients :
          Cleanup(c)
          => /\ destroyed'[c] /\ ~connected'[c]
             /\ connected[c]
                  => /\ mousePositions'[c][userId(c)] = Absent
                     /\ users'[c][userId(c)] = Absent
                     /\ mousePositions[c][userId(c)] # Absent
                          => pnet'[Other(c)] = Append(pnet[Other(c)], OwnDeletion(c))
             /\ ~connected[c] => UNCHANGED presenceVars]_vars

\* a connected session has stopped while its pointer was shown to the other
\* session, and the deletion is on its way there
C13_Witness ==
    \E c \in Clients :
        /\ destroyed[c]
        /\ hist.last = Step("stop", c, "deleted", 0)
        /\ ~connected[c]
        /\ mousePositions[c][userId(c)] = Absent
        /\ mousePositions[Other(c)][userId(c)] # Absent
        /\ pnet[Other(c)] # <<>>
        /\ pnet[Other(c)][Len(pnet[Other(c)])] = OwnDeletion(c)

\* C14: a content payload that fails to deserialize is caught where it
\* comes in: the handler that receives it completes without an uncaught
\* error, posts nothing to the editor, writes nothing to the shared record,
\* and leaves lastRoomState and the pending timer as they were.
C14_MalformedCaught ==
    [][\A m \in EditorMessages, t \in ClockReads :
          (/\ TruthyString(m[1]) /\ ~Parses(m[1])
           /\ UpdateProject(Session, m[1], m[2], m[3], t))
          => /\ hist'.last.q # "threw"
             /\ posted'[Session] = <<>>
             /\ blockContent' = blockContent /\ seq' = seq /\ net' = net
             /\ lastRoomState' = lastRoomState
             /\ timers' = timers /\ debounceTimer' = debounceTimer]_vars

C16_SnapshotIsLastLoad ==
    [][/\ lastRoomState'[Session] # lastRoomState[Session] => posted'[Session] # <<>>
       /\ posted'[Session] # <<>>
            => lastRoomState'[Session] = Content(posted'[Session][1].data)]_vars

\* C17: at most one deferred-apply timer is pending per session: the
\* browser's pending timers of a session are exactly the one debounceTimer
\* names, or none when debounceTimer is undefined, so a timer that has been
\* replaced is cancelled and can never fire.
C17_OneTimer ==
    \A c \in Clients :
        timers[c] = IF debounceTimer[c] = 0 THEN {} ELSE {debounceTimer[c]}

\* a deferred apply has been scheduled while another was pending
C17_Witness ==
    /\ hist.burst[Session] = 2
    /\ Cardinality(timers[Session]) = 1
    /\ debounceTimer[Session] \in timers[Session]

\* who made the write a key's value comes from ("" before any write)
Writer(p) == IF p = <<>> THEN "" ELSE p[Len(p)]

\* C18: once every write has been delivered to every session, the shared
\* content record is the result of a single publish: its timestamp and
\* its origin were written by the publish that wrote its content.
C18_SinglePublish ==
    (Quiescent /\ blockContent["A"] = blockContent["B"])
    => \A c \in Clients :
          /\ Writer(blockContent[c].pt) = Writer(blockContent[c].pc)
          /\ Writer(blockContent[c].po) = Writer(blockContent[c].pc)
          /\ blockContent[c].pc # <<>> =>
                blockContent[c].origin = localUserId(Writer(blockContent[c].pc))

\* C19: whenever a session with a ready editor has no deferred apply
\* pending and no update on its way to it, the document its editor shows (the
\* one last authored in it or last loaded into it, whichever came later) is
\* the content its replica of the shared record holds.
C19_ShownIsRecord ==
    \A c \in Clients :
        (editorReady[c] /\ connected[c] /\ timers[c] = {} /\ net[c] = <<>>)
        => Content(shown[c]) = blockContent[c].content

\* C20: a participant's presence entry does not outlive its observed
\* disconnect: whenever a session is not connected, whether because its
\* connection status changed or because it has stopped, its own entry is
\* absent from its replica of the shared presence map.
C20_NoEntryWhenDisconnected ==
    \A c \in Clients : ~connected[c] => mousePositions[c][userId(c)] = Absent

\* C21: after every run of the mouse-positions observer, that is after
\* every step that changes a session's replica of the map (a local set or
\* delete, or a replicated write integrated), the session's users is the
\* whole map as it then is: the same keys with the same entries, and nothing
\* kept of what users held before.
C21_UsersIsMap ==
    [][\A c \in Clients :
          mousePositions'[c] # mousePositions[c]
          => /\ DOMAIN users'[c] = DOMAIN mousePositions'[c]
             /\ \A u \in UserIds : users'[c][u] = mousePositions'[c][u]]_vars

\* a session has deleted its own entry while it showed the other session's
\* pointer: its view has lost the one entry and kept the other
C21_Witness ==
    \E c \in Clients :
        /\ pnet[Other(c)] # <<>>
        /\ pnet[Other(c)][Len(pnet[Other(c)])] = OwnDeletion(c)
        /\ users[c][userId(c)] = Absent
        /\ users[c][userId(Other(c))] # Absent
        /\ mousePositions[c][userId(Other(c))] = users[c][userId(Other(c))]

\* C22: while a session is not connected its handlers are no-ops on the
\* shared state: a pointer move and a pointer leave leave its replica of
\* the presence map, its view of it and the writes on their way to the
\* other session as they were, and a change reported by its editor leaves its
\* replica of the content record as it was and sends nothing.
C22_OfflineNoOp ==
    [][~connected[Session]
       => /\ ( \/ HandleMouseLeave(Session)
               \/ \E ev \in PointerEvents : HandleMouseMove(Session, ev) )
             => UNCHANGED <<mousePositions, users, pnet>>
          /\ (\E m \in EditorMessages, t \in ClockReads :
                 UpdateProject(Session, m[1], m[2], m[3], t))
             => UNCHANGED <<blockContent, seq, net, editorContent, lastEditorUpdate>>]_vars

\* a session that has lost its connection has handled a pointer leave and
\* a recorded edit: its presence entry and the content record are those of
\* the time it was connected
C22_Witness ==
    /\ ~connected[Session]
    /\ hist.reported[Session] = Absent
    /\ hist.accepted[Session] # Absent
    /\ mousePositions[Session][userId(Session)] = hist.accepted[Session]
    /\ editorReady[Session]
    /\ Truthy(shown[Session])
    /\ Truthy(blockContent[Session].content)
    /\ shown[Session] # blockContent[Session].content

\* C23: a session writes and deletes no presence entry but its own.  A
\* pointer move, a pointer leave and the stop of session c leave every
\* entry of another participant in c's replica as it was, send the other
\* session at most one write and that one for c's own key, change nothing in
\* the other session's replica, and leave the content record, the writes
\* in flight for it and what the editor was handed untouched.
C23_OwnEntryOnly ==
    [][\A c \in Clients :
          ( \/ HandleMouseLeave(c)
            \/ Cleanup(c)
            \/ \E ev \in PointerEvents : HandleMouseMove(c, ev) )
          => /\ \A u \in UserIds \ {userId(c)} :
                   mousePositions'[c][u] = mousePositions[c][u]
             /\ mousePositions'[Other(c)] = mousePositions[Other(c)]
             /\ pnet'[c] = pnet[c]
             /\ \/ pnet'[Other(c)] = pnet[Other(c)]
                \/ \E v \in {Absent} \cup {PointerPosition(c, ev) : ev \in PointerEvents} :
                      pnet'[Other(c)] = Append(pnet[Other(c)], [key |-> userId(c), v |-> v])
             /\ UNCHANGED <<blockContent, seq, net, editorContent, lastEditorUpdate>>]_vars

\* a session that showed both pointers has stopped: its own entry is gone
\* from its replica and the other participant's entry is still there
C23_Witness ==
    \E c \in Clients :
        /\ destroyed[c]
        /\ hist.last = Step("stop", c, "deleted", 0)
        /\ mousePositions[c][userId(c)] = Absent
        /\ mousePositions[c][userId(Other(c))] = PointerPosition(Other(c), CHOOSE ev \in StopEvents : TRUE)
        /\ users[c][userId(Other(c))] # Absent
        /\ blockContent[c] = EmptyRecord

\* C24: teardown resets the reconciliation state.  Once a session has
\* stopped no deferred-apply timer of it is pending and debounceTimer is
\* undefined, and no step after the stop posts a load to the editor or
\* changes lastRoomState.
C24_TeardownResets ==
    [][destroyed'[Session]
       => /\ timers'[Session] = {}
          /\ debounceTimer'[Session] = 0
          /\ destroyed[Session]
               => /\ lastRoomState'[Session] = lastRoomState[Session]
                  /\ posted'[Session] = <<>>]_vars

\* C25: the timestamps a session writes in its successive publishes never
\* decrease, given that its clock does not, whatever timestamps the writes
\* of other participants it has integrated in between carry: a step in
\* which the session writes the record's timestamp writes one no earlier
\* than the one it wrote in its previous publish, and it is the time its
\* clock showed, not one taken from the record.
C25_LocalTimestampsMonotonic ==
    [][(seq' = seq + 3 /\ blockContent'[Session].pt = Append(blockContent[Session].pt, Session))
       => /\ blockContent'[Session].timestamp >= hist.written[Session]
          /\ blockContent'[Session].timestamp \in LocalClockReads(Session)
          /\ hist'.written[Session] = blockContent'[Session].timestamp]_vars

\* the session has published twice, and in between it has integrated a
\* write of another participant that carries a later time than either
C25_Witness ==
    /\ Len(blockContent[Session].pt) = 3
    /\ blockContent[Session].pt[1] = Session
    /\ blockContent[Session].pt[2] = Other(Session)
    /\ blockContent[Session].pt[3] = Session
    /\ blockContent[Session].timestamp = hist.written[Session]
    /\ blockContent[Other(Session)].timestamp > hist.written[Session]
    /\ Writer(blockContent[Other(Session)].pt) = Other(Session)
    /\ Len(blockContent[Other(Session)].pt) = 2

====
